---- MODULE Spec2Model ----
(***************************************************************************)
(* A model of the unit-commitment genetic algorithm (UC_GA):               *)
(*   helpers.py            the schedule codec (binary <-> integer)         *)
(*   economic_dispatch.py  the per-period dispatch and lambda iteration    *)
(*   fitness.py            fuel, start and constraint costs                *)
(*   operators.py          crossover, mutation and hill-climb operators    *)
(*   genotype.py           Population and Genotype                         *)
(*   genetic_algorithm.py  the generational loop                           *)
(*   expected_costs.py     the expected cost over demand realisations      *)
(*                                                                         *)
(* Conventions.  Python arrays are 0-based, the sequences here 1-based:    *)
(* period t of the source is row t+1, generator n is column n+1.  A        *)
(* schedule is a sequence of T rows, each a sequence of N cells.           *)
(* Reals are fixed-point numbers: a power or a lambda x is held as the     *)
(* integer x * Scale, a cost as the integer cost * MoneyScale.  All the    *)
(* inputs of the model are multiples of 1/Scale, so sums, differences,     *)
(* comparisons and products are exact; only the halving of the bisection   *)
(* bracket rounds (to the grid of 1/Scale, as a float rounds to its own    *)
(* grid).                                                                  *)
(***************************************************************************)
EXTENDS Integers, Sequences, FiniteSets, TLC

\* ------------------------------------------------------------------ bounds
\* Magnitude of the run-lengths of init_status and of sampled integer cells.
MaxRun == 2
\* Fractional bits of the fixed-point reals.
FracBits == 4
\* Largest demand of a period in the dispatch specification.
MaxDemand == 9
\* Number of periods of the dispatch specification.
EDPeriods == 2
\* number_of_generations of the GA specification.
NumGenerations == 2
\* Largest number of random draws of one generate_offspring call that fall
\* below their probability threshold (crossed columns, flipped bits, window
\* operators applied).
MaxHits == 1

Scale == 2 ^ FracBits

\* ------------------------------------------------------------- the instance
\* gen_info: one record per generator.  a_inv is the reciprocal of the
\* quadratic coefficient a (a = 1/a_inv), so that (lambda - b)/a is exact.
Unit(mn, mx, ainv, b, c, tdown, tup, hot, cold, coldhrs) ==
    [min_output |-> mn, max_output |-> mx, a_inv |-> ainv, b |-> b, c |-> c,
     t_min_down |-> tdown, t_min_up |-> tup,
     hot_cost |-> hot, cold_cost |-> cold, cold_hrs |-> coldhrs]

\* The fleet of the codec, cost and GA specifications: two units.  Unit 1
\* has cold_hrs = 3, hot_cost = 100, cold_cost = 500.
GAFleet == << Unit(1, 4, 1, 2, 1, 2, 1, 100, 500, 3),
              Unit(1, 3, 1, 3, 2, 1, 2, 2, 4, 1) >>

\* The fleet of the dispatch specification.  Unit 3 has b = 31, above the
\* initial bracket [0, 30] of the lambda iteration.
EDFleet == << Unit(1, 5, 1, 2, 1, 1, 1, 1, 1, 1),
              Unit(0, 4, 2, 1, 1, 1, 1, 1, 1, 1),
              Unit(1, 3, 1, 31, 1, 1, 1, 1, 1, 1) >>

\* The demand profile of the codec and cost specifications (T = 3).
CostDemand == << 2, 5, 3 >>

\* The run of the GA specification: demand (T = 2), init_status, the initial
\* constraint_penalty, the seed schedules the initial population is drawn
\* from, and the pop_size values.
GADemand == << 2, 5 >>
GAInitStatus == << 1, -1 >>
GAInitialPenalty == 3
GASeeds == { << <<1, 0>>, <<1, 0>> >>, << <<0, 1>>, <<1, 1>> >> }
PopSizes == {2, 3}

Range(s) == { s[i] : i \in DOMAIN s }
Abs(x) == IF x < 0 THEN -x ELSE x

RECURSIVE SumSeq(_)
SumSeq(s) == IF s = <<>> THEN 0 ELSE Head(s) + SumSeq(Tail(s))

\* All T x N matrices over the set vals.
Matrices(T, N, vals) == [1..T -> [1..N -> vals]]

\* ------------------------------------------------------------ helpers.py
\* A binarisation that counts a zero cell as online.
convert_to_binary_ZeroOn(integer_schedule) ==
    [t \in DOMAIN integer_schedule |->
        [n \in DOMAIN integer_schedule[t] |->
            IF integer_schedule[t][n] >= 0 THEN 1 ELSE 0]]

\* np.where(integer_schedule > 0, 1, 0)
convert_to_binary(integer_schedule) ==
    [t \in DOMAIN integer_schedule |->
        [n \in DOMAIN integer_schedule[t] |->
            IF integer_schedule[t][n] > 0 THEN 1 ELSE 0]]

\* One cell of convert_to_integer: i0, b0 the previous period's integer and
\* binary state, b1 this period's binary state.
IntegerCell(i0, b0, b1) ==
    IF b0 = b1 THEN i0 + (IF b1 > 0 THEN 1 ELSE -1)
    ELSE IF b0 > b1 THEN -1
    ELSE 1

\* Rows 1..t of convert_to_integer's result (the double loop, row by row).
RECURSIVE IntegerRows(_, _, _)
IntegerRows(binary_schedule, init_status, t) ==
    IF t = 0 THEN <<>>
    ELSE LET prev == IntegerRows(binary_schedule, init_status, t - 1)
             row == [n \in DOMAIN binary_schedule[t] |->
                      LET i0 == IF t = 1 THEN init_status[n] ELSE prev[t - 1][n]
                          b0 == IF t = 1
                                THEN (IF init_status[n] > 0 THEN 1 ELSE 0)
                                ELSE binary_schedule[t - 1][n]
                      IN  IntegerCell(i0, b0, binary_schedule[t][n])]
         IN  Append(prev, row)

\* A codec that extends the run-length across a state flip instead of
\* resetting it.
convert_to_integer_NoReset(binary_schedule, init_status) ==
    LET good == IntegerRows(binary_schedule, init_status, Len(binary_schedule))
    IN  [t \in DOMAIN good |->
          [n \in DOMAIN good[t] |->
            LET b0 == IF t = 1 THEN (IF init_status[n] > 0 THEN 1 ELSE 0)
                      ELSE binary_schedule[t - 1][n]
                i0 == IF t = 1 THEN init_status[n] ELSE good[t - 1][n]
            IN  IF b0 # binary_schedule[t][n]
                THEN i0 + (IF binary_schedule[t][n] > 0 THEN 1 ELSE -1)
                ELSE good[t][n]]]

convert_to_integer(binary_schedule, init_status) ==
    IntegerRows(binary_schedule, init_status, Len(binary_schedule))

\* --------------------------------------------------- economic_dispatch.py
\* epsilon=0.1 of the call in economic_dispatch_period, as 1/EpsilonDen.
EpsilonDen == 10
\* lambda_lo, lambda_hi of economic_dispatch_period.
LambdaLo == 0
LambdaHi == 30

\* idx = np.where(action == 1)[0]: the online generators, in fleet order.
RECURSIVE OnlineFrom(_, _)
OnlineFrom(schedule_t, n) ==
    IF n > Len(schedule_t) THEN <<>>
    ELSE IF schedule_t[n] > 0 THEN <<n>> \o OnlineFrom(schedule_t, n + 1)
    ELSE OnlineFrom(schedule_t, n + 1)
OnlineIdx(schedule_t) == OnlineFrom(schedule_t, 1)

\* calculate_loads: p = (lm - b)/a clamped, first against mins, else against
\* maxs.  units is the sequence of online generator records; lm and the
\* result are fixed-point.
calculate_loads(lm, units) ==
    [i \in DOMAIN units |->
        LET p == (lm - units[i].b * Scale) * units[i].a_inv
        IN  IF p < units[i].min_output * Scale THEN units[i].min_output * Scale
            ELSE IF p > units[i].max_output * Scale THEN units[i].max_output * Scale
            ELSE p]

\* lambda_iteration up to the loop: the bracket, lambda_mid = 0 and the total
\* output at lambda_high.
LambdaStart(units) ==
    [lambda_low |-> LambdaLo * Scale, lambda_high |-> LambdaHi * Scale,
     lambda_mid |-> 0,
     total_output |-> SumSeq(calculate_loads(LambdaHi * Scale, units))]

\* The loop condition abs(total_output - load) > epsilon; load is fixed-point.
LambdaContinue(st, load) ==
    EpsilonDen * Abs(st.total_output - load) > Scale

\* One pass of the loop body.
LambdaBody(st, load, units) ==
    LET mid == (st.lambda_high + st.lambda_low) \div 2
        tot == SumSeq(calculate_loads(mid, units))
    IN  [lambda_low |-> IF tot - load > 0 THEN st.lambda_low ELSE mid,
         lambda_high |-> IF tot - load > 0 THEN mid ELSE st.lambda_high,
         lambda_mid |-> mid,
         total_output |-> tot]

\* The value lambda_iteration returns from state st.
LambdaReturn(st, units) == calculate_loads(st.lambda_mid, units)

\* The loop never leaves st: the body maps st to itself while the loop
\* condition holds.
LambdaStuck(st, load, units) ==
    LambdaContinue(st, load) /\ LambdaBody(st, load, units) = st

\* lambda_iteration as a function: the loads it returns, or hang when the
\* loop never ends.
RECURSIVE LambdaRun(_, _, _)
LambdaRun(st, load, units) ==
    IF ~LambdaContinue(st, load) THEN [hang |-> FALSE, econ |-> LambdaReturn(st, units)]
    ELSE IF LambdaStuck(st, load, units) THEN [hang |-> TRUE, econ |-> <<>>]
    ELSE LambdaRun(LambdaBody(st, load, units), load, units)
lambda_iteration(load, units) == LambdaRun(LambdaStart(units), load, units)

OnlineUnits(gen_info, schedule_t) ==
    LET idx == OnlineIdx(schedule_t) IN [k \in DOMAIN idx |-> gen_info[idx[k]]]
SumMax(units) == SumSeq([i \in DOMAIN units |-> units[i].max_output * Scale])
SumMin(units) == SumSeq([i \in DOMAIN units |-> units[i].min_output * Scale])

\* for (i, e) in zip(idx, econ): disp[i] = e, on disp = zeros.
Scatter(schedule_t, econ) ==
    LET idx == OnlineIdx(schedule_t)
    IN  [n \in DOMAIN schedule_t |->
          IF \E k \in DOMAIN idx : idx[k] = n
          THEN econ[CHOOSE k \in DOMAIN idx : idx[k] = n]
          ELSE 0]

\* Which branch of economic_dispatch_period is taken; demand is in MW.
Shortfall(units, demand) == SumMax(units) < demand * Scale
Oversupply(units, demand) ==
    ~Shortfall(units, demand) /\ SumMin(units) > demand * Scale

\* Energy not served with the sign of the shortfall reversed.
ShortfallEns_Reversed(units, demand) == SumMax(units) - demand * Scale
\* ens = demand - np.sum(on_max)
ShortfallEns(units, demand) == demand * Scale - SumMax(units)

\* Oversupply measured against the maxima.
OversupplyEns_Max(units, demand) == SumMax(units) - demand * Scale
\* ens = np.sum(on_min) - demand
OversupplyEns(units, demand) == SumMin(units) - demand * Scale

\* economic_dispatch_period as a function: disp and ens (fixed-point), or hang.
\* The last branch, given what lambda_iteration returned.
EconomicPeriod(r, schedule_t) ==
    IF r.hang THEN [hang |-> TRUE, disp |-> <<>>, ens |-> 0]
    ELSE [hang |-> FALSE, disp |-> Scatter(schedule_t, r.econ), ens |-> 0]
\* The three branches, given the online units.
DispatchOnline(units, schedule_t, demand) ==
    IF Shortfall(units, demand)
    THEN [hang |-> FALSE,
          disp |-> Scatter(schedule_t, [i \in DOMAIN units |-> units[i].max_output * Scale]),
          ens |-> ShortfallEns(units, demand)]
    ELSE IF Oversupply(units, demand)
    THEN [hang |-> FALSE,
          disp |-> Scatter(schedule_t, [i \in DOMAIN units |-> units[i].min_output * Scale]),
          ens |-> OversupplyEns(units, demand)]
    ELSE EconomicPeriod(lambda_iteration(demand * Scale, units), schedule_t)
economic_dispatch_period(gen_info, schedule_t, demand) ==
    DispatchOnline(OnlineUnits(gen_info, schedule_t), schedule_t, demand)

\* economic_dispatch: the periods one after the other, ens summed.
\* One pass of the loop over t: dispatch[t] = disp_t, ens += ens_t.
AppendPeriod(prev, cur) ==
    IF prev.hang \/ cur.hang
    THEN [hang |-> TRUE, dispatch |-> <<>>, ens |-> 0]
    ELSE [hang |-> FALSE, dispatch |-> Append(prev.dispatch, cur.disp),
          ens |-> prev.ens + cur.ens]
RECURSIVE DispatchRows(_, _, _, _)
DispatchRows(gen_info, schedule, demand, t) ==
    IF t = 0 THEN [hang |-> FALSE, dispatch |-> <<>>, ens |-> 0]
    ELSE AppendPeriod(DispatchRows(gen_info, schedule, demand, t - 1),
                      economic_dispatch_period(gen_info, schedule[t], demand[t]))
economic_dispatch(gen_info, schedule, demand) ==
    DispatchRows(gen_info, schedule, demand, Len(demand))

\* ------------------------------------------------------------- fitness.py
\* Costs are held as cost * MoneyScale: a^2-terms of fixed-point powers with
\* a = 1/a_inv, a_inv in {1, 2}, are then integers.
MoneyScale == 2 * Scale * Scale

\* calculate_costs_period: n_hrs*(a*p^2 + b*p + c) per unit, 0 at output 0.
calculate_costs_period(outputs, gen_info, n_hrs) ==
    [i \in DOMAIN gen_info |->
        IF outputs[i] = 0 THEN 0
        ELSE n_hrs * ((2 \div gen_info[i].a_inv) * outputs[i] * outputs[i]
                      + 2 * gen_info[i].b * outputs[i] * Scale
                      + 2 * gen_info[i].c * Scale * Scale)]

\* calculate_fuel_costs: the per-period sums.
calculate_fuel_costs(dispatch, gen_info, n_hrs) ==
    [t \in DOMAIN dispatch |-> SumSeq(calculate_costs_period(dispatch[t], gen_info, n_hrs))]

\* The test of fitness.py line 154 that picks the hot start cost.
HotStart(prev_status_i, cold_hrs_i) == Abs(prev_status_i) <= -cold_hrs_i

\* calculate_start_costs_period: a cost for each unit with (action,
\* prev_action) = (1, 0).  In money units of 1 (not scaled).
calculate_start_costs_period(gen_info, status, prev_status) ==
    [i \in DOMAIN gen_info |->
        IF status[i] > 0 /\ ~(prev_status[i] > 0)
        THEN IF HotStart(prev_status[i], gen_info[i].cold_hrs)
             THEN gen_info[i].hot_cost
             ELSE gen_info[i].cold_cost
        ELSE 0]

\* calculate_start_costs: period 0 against init_status, period t against t-1.
calculate_start_costs(gen_info, schedule, init_status) ==
    [t \in DOMAIN schedule |->
        SumSeq(calculate_start_costs_period(
                 gen_info, schedule[t],
                 IF t = 1 THEN init_status ELSE schedule[t - 1]))]

\* The minimum up time calculate_constraint_costs_period reads (line 209).
TMinUp(unit) == unit.t_min_down

\* calculate_constraint_costs_period: the number of violations times penalty.
\* reserve_pct is the reserve margin in percent; demand_period is in MW.
ViolationCount(gen_info, status, prev_status, reserve_pct, demand_period) ==
    LET N == DOMAIN gen_info
        min_down_count ==
            Cardinality({i \in N : /\ status[i] > 0 /\ ~(prev_status[i] > 0)
                                   /\ Abs(prev_status[i]) < gen_info[i].t_min_down})
        min_up_count ==
            Cardinality({i \in N : /\ ~(status[i] > 0) /\ prev_status[i] > 0
                                   /\ Abs(prev_status[i]) < TMinUp(gen_info[i])})
        capacity == SumSeq([i \in N |-> IF status[i] > 0 THEN gen_info[i].max_output ELSE 0])
        reserve_violation ==
            IF 100 * capacity < (100 + reserve_pct) * demand_period THEN 1 ELSE 0
    IN  min_down_count + min_up_count + reserve_violation

calculate_constraint_costs_period(gen_info, status, prev_status, penalty, reserve_pct, demand_period) ==
    ViolationCount(gen_info, status, prev_status, reserve_pct, demand_period) * penalty

calculate_constraint_costs(integer_schedule, gen_info, init_status, penalty, demand, reserve_pct) ==
    [t \in DOMAIN integer_schedule |->
        calculate_constraint_costs_period(
            gen_info, integer_schedule[t],
            IF t = 1 THEN init_status ELSE integer_schedule[t - 1],
            penalty, reserve_pct, demand[t])]

\* The keyword arguments (all_kwargs of main.py) the cost functions read.
\* Probabilities are not held: each is taken to lie strictly between 0 and 1,
\* so that either outcome of a draw against it can happen.
Kwargs(gen_info, demand, init_status, penalty, max_penalty, pop_size) ==
    [gen_info |-> gen_info, demand |-> demand, init_status |-> init_status,
     voll |-> 10, constraint_penalty |-> penalty, reserve_pct |-> 10,
     n_hrs |-> 1, max_penalty |-> max_penalty, pop_size |-> pop_size]

\* The sum of the four cost terms, in money units of 1/MoneyScale; -1 when
\* the dispatch never returns.
TotalCostOf(dis, schedule, kw) ==
    IF dis.hang THEN -1
    ELSE SumSeq(calculate_fuel_costs(dis.dispatch, kw.gen_info, kw.n_hrs))
         + dis.ens * kw.voll * 2 * Scale
         + MoneyScale * SumSeq(calculate_start_costs(kw.gen_info, schedule, kw.init_status))
         + MoneyScale * SumSeq(calculate_constraint_costs(
                                 schedule, kw.gen_info, kw.init_status,
                                 kw.constraint_penalty, kw.demand, kw.reserve_pct))
TotalCost(schedule, kw) ==
    TotalCostOf(economic_dispatch(kw.gen_info, schedule, kw.demand), schedule, kw)

\* The penalties a run of the GA specification meets: the initial one and
\* max_penalty*(g+1)/number_of_generations for max_penalty = 0 and
\* max_penalty = 2*number_of_generations.
GAPenalties ==
    {GAInitialPenalty}
    \cup { (mp * (g + 1)) \div NumGenerations :
              mp \in {0, 2 * NumGenerations}, g \in 0..(NumGenerations - 1) }

\* The runs whose fitness values are computed once: those of the GA, and the
\* calls of the operators on the whole of CostDemand under the initial
\* penalty; and the integer schedules of a run.
FitnessRuns ==
    { [demand |-> GADemand, penalty |-> penalty] : penalty \in GAPenalties }
    \cup { [demand |-> CostDemand, penalty |-> GAInitialPenalty] }
SchedulesOf(demand) ==
    { convert_to_integer(b, GAInitStatus) :
         b \in Matrices(Len(demand), Len(GAFleet), {0, 1}) }
RunOf(kw) == [demand |-> kw.demand, penalty |-> kw.constraint_penalty]
RunKwargs(run) == Kwargs(GAFleet, run.demand, GAInitStatus, run.penalty, 0, 0)
IsKnownRun(schedule, kw) ==
    /\ kw.gen_info = GAFleet
    /\ kw.init_status = GAInitStatus
    /\ RunOf(kw) \in FitnessRuns
    /\ Len(schedule) = Len(kw.demand)

\* calculate_schedule_fitness on the schedules of these runs, computed once:
\* a table from the run and the schedule to the fitness.
GAScheduleFitness ==
    [run \in FitnessRuns |->
        [schedule \in SchedulesOf(run.demand) |-> TotalCost(schedule, RunKwargs(run))]
        @@ << >>] @@ << >>

\* calculate_schedule_fitness of fitness.py.
calculate_schedule_fitness(schedule, kw) ==
    IF IsKnownRun(schedule, kw)
    THEN GAScheduleFitness[RunOf(kw)][schedule]
    ELSE TotalCost(schedule, kw)

\* ----------------------------------------------------------- operators.py
\* Random draws are arguments: each operator is a function of its input and
\* of what it drew.

\* crossover with crossover_point (0..T-1) drawn and cols the generators
\* whose draw fell below crossover_probability.  Rows 1..crossover_point are
\* the source's rows 0:crossover_point.
crossover(binary_schedule1, binary_schedule2, crossover_point, cols) ==
    << [t \in DOMAIN binary_schedule1 |->
          [n \in DOMAIN binary_schedule1[t] |->
              IF n \in cols /\ t <= crossover_point
              THEN binary_schedule2[t][n] ELSE binary_schedule1[t][n]]],
       [t \in DOMAIN binary_schedule2 |->
          [n \in DOMAIN binary_schedule2[t] |->
              IF n \in cols /\ t > crossover_point
              THEN binary_schedule1[t][n] ELSE binary_schedule2[t][n]]] >>

\* mutate with idx the set of cells <<t, n>> whose draw fell below
\* mutation_probability: the value returned.
mutate(binary_schedule, idx) ==
    [t \in DOMAIN binary_schedule |->
        [n \in DOMAIN binary_schedule[t] |->
            IF <<t, n>> \in idx THEN 1 - binary_schedule[t][n]
            ELSE binary_schedule[t][n]]]

\* A swap_window that overwrites generator gen_b with gen_a's values.
swap_window_Overwrite(binary_schedule, w0, w1, gen_a, gen_b) ==
    [t \in DOMAIN binary_schedule |->
        [n \in DOMAIN binary_schedule[t] |->
            IF t > w0 /\ t <= w1 /\ n = gen_b THEN binary_schedule[t][gen_a]
            ELSE binary_schedule[t][n]]]

\* swap_window with random_window = [w0, w1] (sorted, 0-based) and
\* random_gens = [gen_a, gen_b]: the slice w0:w1 is rows w0+1..w1.
swap_window(binary_schedule, w0, w1, gen_a, gen_b) ==
    [t \in DOMAIN binary_schedule |->
        [n \in DOMAIN binary_schedule[t] |->
            IF t > w0 /\ t <= w1 /\ n = gen_a THEN binary_schedule[t][gen_b]
            ELSE IF t > w0 /\ t <= w1 /\ n = gen_b THEN binary_schedule[t][gen_a]
            ELSE binary_schedule[t][n]]]

\* window_mutation with random_window = [w0, w1], random_gen and zero_or_one:
\* the value returned.
window_mutation(binary_schedule, w0, w1, random_gen, zero_or_one) ==
    [t \in DOMAIN binary_schedule |->
        [n \in DOMAIN binary_schedule[t] |->
            IF t > w0 /\ t <= w1 /\ n = random_gen THEN zero_or_one
            ELSE binary_schedule[t][n]]]

\* The windows np.random.choice(np.arange(T), size=2, replace=False), sorted,
\* can give, and the ordered pairs of distinct generators.
Windows(nT) == { w \in (0..(nT - 1)) \X (0..(nT - 1)) : w[1] < w[2] }
GenPairs(nN) == { r \in (1..nN) \X (1..nN) : r[1] # r[2] }

\* A hill-climb that keeps the trial moves that cost more.
Accepts_Higher(new_fitness, best_fitness) == new_fitness > best_fitness
\* A hill-climb that keeps every trial move.
Accepts_Always(new_fitness, best_fitness) == TRUE
\* if new_fitness < best_fitness (operators.py lines 183 and 233).
Accepts(new_fitness, best_fitness) == new_fitness < best_fitness

\* The array the caller passed, as it is after the call: an operator that
\* writes into its argument and returns it (mutate, line 40; window_mutation,
\* lines 137-139) leaves the returned values there; one that works on
\* np.copy (crossover, swap_window, the hill-climbs) leaves it as it was.
InPlace(binary_schedule, returned) == returned
Copied(binary_schedule, returned) == binary_schedule

\* One trial move of swap_mutation_operator in period t (1-based): a swap of
\* the bits of r1 and r2, or a flip of the bit of r.
SwapMutationMoves(nN) ==
    { [kind |-> "swap", r1 |-> r[1], r2 |-> r[2]] : r \in GenPairs(nN) }
    \cup { [kind |-> "flip", r1 |-> r, r2 |-> r] : r \in 1..nN }
ApplyMove(schedule, t, move) ==
    [schedule EXCEPT ![t] =
        IF move.kind = "swap"
        THEN [schedule[t] EXCEPT ![move.r1] = schedule[t][move.r2],
                                 ![move.r2] = schedule[t][move.r1]]
        ELSE [schedule[t] EXCEPT ![move.r1] = 1 - schedule[t][move.r1]]]

\* The loop of swap_mutation_operator from period t on; moves[t] is the move
\* drawn in period t.
RECURSIVE SwapMutationFrom(_, _, _, _, _)
SwapMutationFrom(best_schedule, best_fitness, t, moves, kw) ==
    IF t > Len(best_schedule) THEN best_schedule
    ELSE LET new_binary_schedule == ApplyMove(best_schedule, t, moves[t])
             new_fitness == calculate_schedule_fitness(
                               convert_to_integer(new_binary_schedule, kw.init_status), kw)
         IN  IF Accepts(new_fitness, best_fitness)
             THEN SwapMutationFrom(new_binary_schedule, new_fitness, t + 1, moves, kw)
             ELSE SwapMutationFrom(best_schedule, best_fitness, t + 1, moves, kw)

swap_mutation_operator(binary_schedule, moves, kw) ==
    SwapMutationFrom(binary_schedule,
                     calculate_schedule_fitness(
                        convert_to_integer(binary_schedule, kw.init_status), kw),
                     1, moves, kw)

\* The window sizes np.random.choice(np.arange(1, T-1)) can give; none for
\* T <= 2, where the draw raises ValueError.
WindowSizes(nT) == 1..(nT - 2)

\* The loop of swap_window_hc_operator from window start t (0-based) on:
\* for t in range(T-W), window = range(t, t+W), i.e. rows t+1..t+W;
\* HCWindowStarts is range(T-W).
HCWindowStarts(nT, W) == 0..(nT - W - 1)
RECURSIVE SwapWindowHCFrom(_, _, _, _, _, _, _)
SwapWindowHCFrom(best_schedule, best_fitness, t, W, u1, u2, kw) ==
    IF t \notin HCWindowStarts(Len(best_schedule), W) THEN best_schedule
    ELSE LET new_binary_schedule == swap_window(best_schedule, t, t + W, u1, u2)
             new_fitness == calculate_schedule_fitness(
                               convert_to_integer(new_binary_schedule, kw.init_status), kw)
         IN  IF Accepts(new_fitness, best_fitness)
             THEN SwapWindowHCFrom(new_binary_schedule, new_fitness, t + 1, W, u1, u2, kw)
             ELSE SwapWindowHCFrom(best_schedule, best_fitness, t + 1, W, u1, u2, kw)

swap_window_hc_operator(binary_schedule, W, u1, u2, kw) ==
    SwapWindowHCFrom(binary_schedule,
                     calculate_schedule_fitness(
                        convert_to_integer(binary_schedule, kw.init_status), kw),
                     0, W, u1, u2, kw)

\* ------------------------------------------------------------ genotype.py
\* Genotype.calculate_fitness: the same four terms as
\* calculate_schedule_fitness, from the attributes set in __init__; -1 when
\* the dispatch never returns.
GenotypeCostOf(dis, schedule, kw) ==
    IF dis.hang THEN -1
    ELSE SumSeq(calculate_fuel_costs(dis.dispatch, kw.gen_info, kw.n_hrs))
         + dis.ens * kw.voll * 2 * Scale
         + MoneyScale * SumSeq(calculate_start_costs(kw.gen_info, schedule, kw.init_status))
         + MoneyScale * SumSeq(calculate_constraint_costs(
                                 schedule, kw.gen_info, kw.init_status,
                                 kw.constraint_penalty, kw.demand, kw.reserve_pct))
GenotypeCost(schedule, kw) ==
    GenotypeCostOf(economic_dispatch(kw.gen_info, schedule, kw.demand), schedule, kw)

\* Genotype.calculate_fitness on the schedules of the same runs, computed
\* once.
GAGenotypeFitness ==
    [run \in FitnessRuns |->
        [schedule \in SchedulesOf(run.demand) |-> GenotypeCost(schedule, RunKwargs(run))]
        @@ << >>] @@ << >>

calculate_fitness(schedule, kw) ==
    IF IsKnownRun(schedule, kw)
    THEN GAGenotypeFitness[RunOf(kw)][schedule]
    ELSE GenotypeCost(schedule, kw)

\* Genotype(schedule, **kwargs): the schedule and its fitness, computed once.
Genotype(schedule, kw) ==
    [schedule |-> schedule, fitness |-> calculate_fitness(schedule, kw)]

\* A Population is its list of genotypes; num_used is the list's length
\* (add_genotype and remove_genotype keep the two equal).
add_genotype(genotypes, genotype) == Append(genotypes, genotype)

\* remove_genotype of the genotype in slot i (list.remove finds the object
\* itself: a Genotype compares by identity).
remove_genotype(genotypes, i) ==
    [k \in 1..(Len(genotypes) - 1) |-> IF k < i THEN genotypes[k] ELSE genotypes[k + 1]]

\* best_two_genotypes: the slots np.argsort(fitnesses)[:2] can give.  The
\* order argsort gives equal fitnesses is not fixed by its contract.
BestTwoIdx(genotypes) ==
    { ij \in (1..Len(genotypes)) \X (1..Len(genotypes)) :
        /\ ij[1] # ij[2]
        /\ \A k \in 1..Len(genotypes) : genotypes[ij[1]].fitness <= genotypes[k].fitness
        /\ \A k \in 1..Len(genotypes) \ {ij[1]} :
              genotypes[ij[2]].fitness <= genotypes[k].fitness }
BestIdx(genotypes) ==
    { i \in 1..Len(genotypes) :
        \A k \in 1..Len(genotypes) : genotypes[i].fitness <= genotypes[k].fitness }

\* A selection that draws with replacement.
SelectTwoIdx_WithReplacement(genotypes) ==
    IF \E i \in 1..Len(genotypes) : genotypes[i].fitness <= 0 THEN {}
    ELSE (1..Len(genotypes)) \X (1..Len(genotypes))

\* select_two_genotypes: the pairs of slots (idx1, idx2) that
\* np.random.choice(np.arange(N), size=2, replace=False, p=p) can give.
\* Every p[i] is positive when every fitness is positive (dividing the
\* fitnesses within 1% of the best by 10 changes the weights, not which
\* slots can be drawn); a fitness of 0 makes p NaN and the draw raise, as
\* does a population of fewer than two: no pair.
SelectTwoIdx(genotypes) ==
    IF \E i \in 1..Len(genotypes) : genotypes[i].fitness <= 0 THEN {}
    ELSE { ij \in (1..Len(genotypes)) \X (1..Len(genotypes)) : ij[1] # ij[2] }

\* ================================================================ state
VARIABLES
    fleet,      \* gen_info: the fleet the specification runs on
    codec,      \* the schedule codec: its inputs, results and position
    cost,       \* calculate_start_costs: its inputs, results and position
    ed,         \* economic_dispatch: its locals, results and position
    ga,         \* run_genetic_algorithm: its arguments, locals and position
    op,         \* one call of a genetic operator: arguments, draws, results
    ec          \* calculate_expected_cost: its arguments, locals and position

vars == << fleet, codec, cost, ed, ga, op, ec >>

Off == [pc |-> "off"]

T == Len(CostDemand)
N == Len(GAFleet)
InitStatuses == [1..N -> (-MaxRun)..MaxRun]
BinarySchedules == Matrices(T, N, {0, 1})

\* ------------------------------------------------------ the schedule codec
\* An integer schedule s is drawn (cells negative, zero or positive), made
\* binary, made integer again against init_status, and made binary again.
InitCodec ==
    /\ op = Off
    /\ ec = Off
    /\ ga = Off
    /\ fleet = GAFleet
    /\ codec \in [pc : {"start"}, init_status : InitStatuses,
                  source : Matrices(T, N, {-MaxRun, 0, MaxRun}),
                  binary_schedule : {<<>>}, integer_schedule : {<<>>},
                  binary_again : {<<>>}]
    /\ cost = Off
    /\ ed = Off

CodecToBinary ==
    /\ codec.pc = "start"
    /\ codec' = [codec EXCEPT !.pc = "binary",
                              !.binary_schedule = convert_to_binary(codec.source)]
    /\ UNCHANGED << fleet, cost, ed, ga, op, ec >>

CodecToInteger ==
    /\ codec.pc = "binary"
    /\ codec' = [codec EXCEPT !.pc = "integer",
                              !.integer_schedule =
                                  convert_to_integer(codec.binary_schedule, codec.init_status)]
    /\ UNCHANGED << fleet, cost, ed, ga, op, ec >>

CodecBackToBinary ==
    /\ codec.pc = "integer"
    /\ codec' = [codec EXCEPT !.pc = "done",
                              !.binary_again = convert_to_binary(codec.integer_schedule)]
    /\ UNCHANGED << fleet, cost, ed, ga, op, ec >>

NextCodec == CodecToBinary \/ CodecToInteger \/ CodecBackToBinary
SpecCodec == InitCodec /\ [][NextCodec]_vars

\* ------------------------------------------------- calculate_start_costs
\* reserve_margin of the cost specification, in percent (Kwargs).
CostReservePct == Kwargs(GAFleet, CostDemand, << >>, 0, 0, 0).reserve_pct
\* The schedule is the integer encoding of a binary schedule, as every
\* caller passes it; start_costs grows by one period per step.
InitCost ==
    /\ op = Off
    /\ ec = Off
    /\ ga = Off
    /\ fleet = GAFleet
    /\ \E b \in BinarySchedules, init \in InitStatuses :
          cost = [pc |-> "start_costs", init_status |-> init,
                  schedule |-> convert_to_integer(b, init), start_costs |-> <<>>,
                  constraint_costs |-> <<>>]
    /\ codec = Off
    /\ ed = Off

\* One pass of the loop of calculate_start_costs (lines 120-125).
StartCostsPeriod ==
    /\ cost.pc = "start_costs"
    /\ Len(cost.start_costs) < Len(cost.schedule)
    /\ LET t == Len(cost.start_costs) + 1
           period == calculate_start_costs_period(
                        fleet, cost.schedule[t],
                        IF t = 1 THEN cost.init_status ELSE cost.schedule[t - 1])
       IN  cost' = [cost EXCEPT !.start_costs = Append(@, SumSeq(period))]
    /\ UNCHANGED << fleet, codec, ed, ga, op, ec >>

StartCostsReturn ==
    /\ cost.pc = "start_costs"
    /\ Len(cost.start_costs) = Len(cost.schedule)
    /\ cost' = [cost EXCEPT !.pc = "done"]
    /\ UNCHANGED << fleet, codec, ed, ga, op, ec >>

\* One pass of the loop of calculate_constraint_costs (lines 181-189), run
\* on the same schedule under the penalty GAInitialPenalty and the reserve
\* margin of Kwargs.
ConstraintCostsPeriod ==
    /\ cost.pc = "done"
    /\ Len(cost.constraint_costs) < Len(cost.schedule)
    /\ LET t == Len(cost.constraint_costs) + 1
           period == calculate_constraint_costs_period(
                        fleet, cost.schedule[t],
                        IF t = 1 THEN cost.init_status ELSE cost.schedule[t - 1],
                        GAInitialPenalty, CostReservePct, CostDemand[t])
       IN  cost' = [cost EXCEPT !.constraint_costs = Append(@, period)]
    /\ UNCHANGED << fleet, codec, ed, ga, op, ec >>

NextCost == StartCostsPeriod \/ StartCostsReturn \/ ConstraintCostsPeriod
SpecCost == InitCost /\ [][NextCost]_vars

\* ------------------------------------------------------ economic_dispatch
\* ed.t is the period being dispatched (1-based); schedule_t, demand_t,
\* disp_t and ens_t are those of the period in progress, or of the last one
\* finished; ens_hist records the ens_t of every finished period.
NoLambda == [lambda_low |-> 0, lambda_high |-> 0, lambda_mid |-> 0, total_output |-> 0]

InitDispatch ==
    /\ op = Off
    /\ ec = Off
    /\ ga = Off
    /\ fleet = EDFleet
    /\ ed = [pc |-> "period", t |-> 1, schedule_t |-> <<>>, demand_t |-> 0,
             lam |-> NoLambda, disp_t |-> <<>>, ens_t |-> 0, ens |-> 0,
             ens_hist |-> <<>>]
    /\ codec = Off
    /\ cost = Off

\* dispatch[t,:] = disp_t; ens += ens_t; and the loop test of economic_dispatch.
PeriodReturn(disp_t, ens_t) ==
    [ed EXCEPT !.pc = IF ed.t = EDPeriods THEN "done" ELSE "period",
               !.t = ed.t + 1,
               !.disp_t = disp_t, !.ens_t = ens_t,
               !.ens = ed.ens + ens_t, !.ens_hist = Append(ed.ens_hist, ens_t)]

\* A period whose dispatch needs no lambda iteration (lines 59-64, 69-71).
EDPeriodShortCircuit ==
    /\ ed.pc = "period"
    /\ \E schedule_t \in [1..Len(fleet) -> {-1, 1}], demand_t \in 0..MaxDemand :
         LET units == OnlineUnits(fleet, schedule_t)
         IN  /\ Shortfall(units, demand_t) \/ Oversupply(units, demand_t)
             /\ ed' = IF Shortfall(units, demand_t)
                      THEN [PeriodReturn(
                              Scatter(schedule_t, [i \in DOMAIN units |-> units[i].max_output * Scale]),
                              ShortfallEns(units, demand_t))
                            EXCEPT !.schedule_t = schedule_t, !.demand_t = demand_t,
                                   !.lam = NoLambda]
                      ELSE [PeriodReturn(
                              Scatter(schedule_t, [i \in DOMAIN units |-> units[i].min_output * Scale]),
                              OversupplyEns(units, demand_t))
                            EXCEPT !.schedule_t = schedule_t, !.demand_t = demand_t,
                                   !.lam = NoLambda]
    /\ UNCHANGED << fleet, codec, cost, ga, op, ec >>

\* A period that enters lambda_iteration (lines 65-68, 87-91).
EDPeriodLambda ==
    /\ ed.pc = "period"
    /\ \E schedule_t \in [1..Len(fleet) -> {-1, 1}], demand_t \in 0..MaxDemand :
         LET units == OnlineUnits(fleet, schedule_t)
         IN  /\ ~Shortfall(units, demand_t)
             /\ ~Oversupply(units, demand_t)
             /\ ed' = [ed EXCEPT !.pc = "lambda", !.schedule_t = schedule_t,
                                 !.demand_t = demand_t, !.lam = LambdaStart(units),
                                 !.disp_t = <<>>, !.ens_t = 0]
    /\ UNCHANGED << fleet, codec, cost, ga, op, ec >>

\* One pass of the while loop of lambda_iteration (lines 92-98).
LambdaStep ==
    /\ ed.pc = "lambda"
    /\ LambdaContinue(ed.lam, ed.demand_t * Scale)
    /\ ed' = [ed EXCEPT !.lam = LambdaBody(ed.lam, ed.demand_t * Scale,
                                           OnlineUnits(fleet, ed.schedule_t))]
    /\ UNCHANGED << fleet, codec, cost, ga, op, ec >>

\* The loop ends: lambda_iteration returns (line 99) and the period is
\* written (lines 69-71, 40-41).
LambdaExit ==
    /\ ed.pc = "lambda"
    /\ ~LambdaContinue(ed.lam, ed.demand_t * Scale)
    /\ ed' = PeriodReturn(
                Scatter(ed.schedule_t,
                        LambdaReturn(ed.lam, OnlineUnits(fleet, ed.schedule_t))),
                0)
    /\ UNCHANGED << fleet, codec, cost, ga, op, ec >>

NextDispatch == EDPeriodShortCircuit \/ EDPeriodLambda \/ LambdaStep \/ LambdaExit
SpecDispatch == InitDispatch /\ [][NextDispatch]_vars

\* ---------------------------------------------------- the genetic algorithm
\* run_genetic_algorithm on GAFleet and GADemand.  ga.pc is the position in
\* the function; genotype1 and genotype2 are held as slots of the parent
\* population; a binary schedule not in use is << >>.
GAT == Len(GADemand)
GAN == Len(GAFleet)
GACells == (1..GAT) \X (1..GAN)
NoSchedule == << >>
NoGenotype == [schedule |-> NoSchedule, fitness |-> 0]

\* The arguments: pop_size, max_penalty (0, or a multiple of
\* number_of_generations so that every annealed penalty is a whole number)
\* and pop_size seed schedules.
GAReturns ==
    \A run \in FitnessRuns : \A schedule \in SchedulesOf(run.demand) :
       GAScheduleFitness[run][schedule] >= 0 /\ GAGenotypeFitness[run][schedule] >= 0

InitGA ==
    /\ op = Off
    /\ ec = Off
    /\ GAReturns
    /\ fleet = GAFleet
    /\ codec = Off
    /\ cost = Off
    /\ ed = Off
    /\ \E pop_size \in PopSizes, max_penalty \in {0, 2 * NumGenerations} :
       \E seed_schedules \in [1..pop_size -> GASeeds] :
          ga = [pc |-> "init",
                kwargs |-> Kwargs(GAFleet, GADemand, GAInitStatus,
                                  GAInitialPenalty, max_penalty, pop_size),
                seed_schedules |-> seed_schedules,
                parent_population |-> << >>, new_population |-> << >>,
                best_genotype1 |-> NoGenotype,
                results |-> << >>, g |-> 0, idx1 |-> 0, idx2 |-> 0, hits |-> 0,
                offspring_binary_schedule1 |-> NoSchedule,
                offspring_binary_schedule2 |-> NoSchedule,
                best_binary_schedule |-> NoSchedule]

\* Lines 29-39: the parent population of the seeds, its best genotype, and
\* the empty results list.
InitialisePopulation ==
    /\ ga.pc = "init"
    /\ LET genotypes == [i \in 1..ga.kwargs.pop_size |->
                            Genotype(convert_to_integer(ga.seed_schedules[i],
                                                        ga.kwargs.init_status), ga.kwargs)]
       IN  \E i \in BestIdx(genotypes) :
              ga' = [ga EXCEPT !.pc = "for", !.parent_population = genotypes,
                               !.best_genotype1 = genotypes[i], !.results = << >>]
    /\ UNCHANGED << fleet, codec, cost, ed, op, ec >>

\* A penalty that starts from 0 in the first generation.
new_penalty_FromZero(max_penalty, g, number_of_generations) ==
    (max_penalty * g) \div number_of_generations
\* Lines 47-48: new_penalty = max_penalty*(g+1)/number_of_generations.  The
\* runs modelled have max_penalty a multiple of number_of_generations, so the
\* division is exact.
new_penalty(max_penalty, g, number_of_generations) ==
    (max_penalty * (g + 1)) \div number_of_generations

\* Lines 41-51: the head of the generation loop.  The penalty is annealed and
\* the new population starts with the best genotype, as it is.
StartGeneration ==
    /\ ga.pc = "for"
    /\ ga.g < NumGenerations
    /\ ga' = [ga EXCEPT !.pc = "while",
                        !.kwargs.constraint_penalty =
                            new_penalty(ga.kwargs.max_penalty, ga.g, NumGenerations),
                        !.new_population = add_genotype(<< >>, ga.best_genotype1)]
    /\ UNCHANGED << fleet, codec, cost, ed, op, ec >>

\* Lines 53-55: while num_used < size, roulette wheel selection.
SelectParents ==
    /\ ga.pc = "while"
    /\ Len(ga.new_population) < ga.kwargs.pop_size
    /\ \E ij \in SelectTwoIdx(ga.parent_population) :
          ga' = [ga EXCEPT !.pc = "crossover", !.idx1 = ij[1], !.idx2 = ij[2]]
    /\ UNCHANGED << fleet, codec, cost, ed, op, ec >>

\* generate_offspring, lines 114-119.  ga.hits counts the draws of this call
\* that fell below their probability threshold; a call has at most MaxHits.
Crossover ==
    /\ ga.pc = "crossover"
    /\ \E crossover_point \in 0..(GAT - 1), cols \in SUBSET (1..GAN) :
          /\ Cardinality(cols) <= MaxHits
          /\ LET o == crossover(convert_to_binary(ga.parent_population[ga.idx1].schedule),
                                convert_to_binary(ga.parent_population[ga.idx2].schedule),
                                crossover_point, cols)
             IN  ga' = [ga EXCEPT !.pc = "mutate", !.hits = Cardinality(cols),
                                  !.offspring_binary_schedule1 = o[1],
                                  !.offspring_binary_schedule2 = o[2]]
    /\ UNCHANGED << fleet, codec, cost, ed, op, ec >>

\* generate_offspring, lines 122-123.
Mutate ==
    /\ ga.pc = "mutate"
    /\ \E m1 \in SUBSET GACells, m2 \in SUBSET GACells :
          /\ ga.hits + Cardinality(m1) + Cardinality(m2) <= MaxHits
          /\ ga' = [ga EXCEPT !.pc = "swap_window",
                       !.hits = ga.hits + Cardinality(m1) + Cardinality(m2),
                       !.offspring_binary_schedule1 = mutate(ga.offspring_binary_schedule1, m1),
                       !.offspring_binary_schedule2 = mutate(ga.offspring_binary_schedule2, m2)]
    /\ UNCHANGED << fleet, codec, cost, ed, op, ec >>

\* An operator applied with probability: the schedule as it is, at no hit,
\* or one of outcomes, at one hit.
Maybe(schedule, outcomes) ==
    { [hit |-> 0, schedule |-> schedule] }
    \cup { [hit |-> 1, schedule |-> o] : o \in outcomes }

\* generate_offspring, lines 126-130.
SwapWindow ==
    /\ ga.pc = "swap_window"
    /\ \E o1 \in Maybe(ga.offspring_binary_schedule1,
                       { swap_window(ga.offspring_binary_schedule1, w[1], w[2], r[1], r[2]) :
                            w \in Windows(GAT), r \in GenPairs(GAN) }),
          o2 \in Maybe(ga.offspring_binary_schedule2,
                       { swap_window(ga.offspring_binary_schedule2, w[1], w[2], r[1], r[2]) :
                            w \in Windows(GAT), r \in GenPairs(GAN) }) :
          /\ ga.hits + o1.hit + o2.hit <= MaxHits
          /\ ga' = [ga EXCEPT !.pc = "window_mutation",
                              !.hits = ga.hits + o1.hit + o2.hit,
                              !.offspring_binary_schedule1 = o1.schedule,
                              !.offspring_binary_schedule2 = o2.schedule]
    /\ UNCHANGED << fleet, codec, cost, ed, op, ec >>

\* generate_offspring, lines 133-137.
WindowMutation ==
    /\ ga.pc = "window_mutation"
    /\ \E o1 \in Maybe(ga.offspring_binary_schedule1,
                       { window_mutation(ga.offspring_binary_schedule1, w[1], w[2], r, v) :
                            w \in Windows(GAT), r \in 1..GAN, v \in {0, 1} }),
          o2 \in Maybe(ga.offspring_binary_schedule2,
                       { window_mutation(ga.offspring_binary_schedule2, w[1], w[2], r, v) :
                            w \in Windows(GAT), r \in 1..GAN, v \in {0, 1} }) :
          /\ ga.hits + o1.hit + o2.hit <= MaxHits
          /\ ga' = [ga EXCEPT !.pc = "offspring", !.hits = 0,
                              !.offspring_binary_schedule1 = o1.schedule,
                              !.offspring_binary_schedule2 = o2.schedule]
    /\ UNCHANGED << fleet, codec, cost, ed, op, ec >>

\* generate_offspring, lines 140-145, and lines 59-60: both offspring are
\* made genotypes under the current penalty and added.
AddOffspring ==
    /\ ga.pc = "offspring"
    /\ ga' = [ga EXCEPT !.pc = "while", !.idx1 = 0, !.idx2 = 0,
                  !.offspring_binary_schedule1 = NoSchedule,
                  !.offspring_binary_schedule2 = NoSchedule,
                  !.new_population =
                      add_genotype(
                         add_genotype(ga.new_population,
                            Genotype(convert_to_integer(ga.offspring_binary_schedule1,
                                                        ga.kwargs.init_status), ga.kwargs)),
                         Genotype(convert_to_integer(ga.offspring_binary_schedule2,
                                                     ga.kwargs.init_status), ga.kwargs))]
    /\ UNCHANGED << fleet, codec, cost, ed, op, ec >>

\* Lines 64-68: the loop is left, the best genotype is taken out of the new
\* population and its schedule made binary.
TakeBest ==
    /\ ga.pc = "while"
    /\ Len(ga.new_population) >= ga.kwargs.pop_size
    /\ \E ij \in BestTwoIdx(ga.new_population) :
          ga' = [ga EXCEPT !.pc = "swap_mutation",
                    !.best_genotype1 = ga.new_population[ij[1]],
                    !.new_population = remove_genotype(ga.new_population, ij[1]),
                    !.best_binary_schedule =
                        convert_to_binary(ga.new_population[ij[1]].schedule)]
    /\ UNCHANGED << fleet, codec, cost, ed, op, ec >>

\* Line 69: the swap mutation hill-climb, one move drawn for each period.
SwapMutation ==
    /\ ga.pc = "swap_mutation"
    /\ \E moves \in [1..GAT -> SwapMutationMoves(GAN)] :
          ga' = [ga EXCEPT !.pc = "hc",
                    !.best_binary_schedule =
                        swap_mutation_operator(ga.best_binary_schedule, moves, ga.kwargs)]
    /\ UNCHANGED << fleet, codec, cost, ed, op, ec >>

\* Lines 72-74, random < swap_window_hc_probability: the window hill-climb.
\* With no window size to draw from, np.random.choice raises and the run
\* ends there.
SwapWindowHC ==
    /\ ga.pc = "hc"
    /\ IF WindowSizes(GAT) = {}
       THEN ga' = [ga EXCEPT !.pc = "error"]
       ELSE \E W \in WindowSizes(GAT), u \in GenPairs(GAN) :
               ga' = [ga EXCEPT !.pc = "genotype",
                         !.best_binary_schedule =
                             swap_window_hc_operator(ga.best_binary_schedule,
                                                     W, u[1], u[2], ga.kwargs)]
    /\ UNCHANGED << fleet, codec, cost, ed, op, ec >>

\* Lines 72-73, random >= swap_window_hc_probability.
SkipSwapWindowHC ==
    /\ ga.pc = "hc"
    /\ ga' = [ga EXCEPT !.pc = "genotype"]
    /\ UNCHANGED << fleet, codec, cost, ed, op, ec >>

\* Lines 77-88: the climbed schedule is made a genotype under the current
\* penalty and returned to the new population, which becomes the parent
\* population; its fitness is appended to results.
RecordBest ==
    /\ ga.pc = "genotype"
    /\ LET best == Genotype(convert_to_integer(ga.best_binary_schedule,
                                               ga.kwargs.init_status), ga.kwargs)
       IN  ga' = [ga EXCEPT !.pc = "for", !.g = ga.g + 1,
                     !.best_genotype1 = best,
                     !.best_binary_schedule = NoSchedule,
                     !.new_population = add_genotype(ga.new_population, best),
                     !.parent_population = add_genotype(ga.new_population, best),
                     !.results = Append(ga.results, best.fitness)]
    /\ UNCHANGED << fleet, codec, cost, ed, op, ec >>

\* Line 92: return best_genotype1, results, new_population.
Return ==
    /\ ga.pc = "for"
    /\ ga.g = NumGenerations
    /\ ga' = [ga EXCEPT !.pc = "done"]
    /\ UNCHANGED << fleet, codec, cost, ed, op, ec >>

Next ==
    \/ InitialisePopulation \/ StartGeneration \/ SelectParents \/ Crossover
    \/ Mutate \/ SwapWindow \/ WindowMutation \/ AddOffspring \/ TakeBest
    \/ SwapMutation \/ SwapWindowHC \/ SkipSwapWindowHC \/ RecordBest \/ Return
Spec == InitGA /\ [][Next]_vars

\* ------------------------------------------- run_genetic_algorithm, entry
\* The call up to its first selection, on arguments of any shape: seeds of
\* 0 or GAT rows and GAN - 1, GAN or GAN + 1 columns, a demand profile of
\* length 0 or GAT, pop_size 0 or 2.  The function has no check of its
\* arguments; what stops a call is the first statement that cannot index.
SeedRows == {0, GAT}
SeedWidths == {GAN - 1, GAN, GAN + 1}
EntryDemands == {<< >>, GADemand}
EntryPopSizes == {0, 2}
NoError == [kind |-> "none", line |-> 0]

\* Line 32 for one seed: Genotype(convert_to_integer(seed, init_status),
\* **kwargs), as the genotype built or the exception raised on the way.
\* width is the seed's number of columns (shape[1], also of a seed of no rows).
\*  - convert_to_integer reads init_status[n] for every column n of a seed
\*    with rows (helpers.py:53): IndexError when the seed is wider than
\*    init_status;
\*  - economic_dispatch reads schedule[t,:] for t < len(demand)
\*    (economic_dispatch.py:37): IndexError when the demand is longer than the
\*    schedule;
\*  - calculate_start_costs_period indexes the zip of the period's row with
\*    the previous status by range(num_gen) (fitness.py:148): IndexError when
\*    the row is narrower than the fleet;
\*  - calculate_constraint_costs reads demand[t] for every row t of the
\*    schedule (fitness.py:181-189): IndexError when the schedule is longer
\*    than the demand;
\*  - with no rows and no demand every cost term is a sum over nothing.
SeedGenotype(binary_schedule, width, kw) ==
    LET rows == Len(binary_schedule)
    IN  IF rows > 0 /\ width > Len(kw.init_status)
        THEN [error |-> [kind |-> "IndexError", line |-> 32], genotype |-> NoGenotype]
        ELSE IF Len(kw.demand) > rows
        THEN [error |-> [kind |-> "IndexError", line |-> 32], genotype |-> NoGenotype]
        ELSE IF rows > 0 /\ width < Len(kw.gen_info)
        THEN [error |-> [kind |-> "IndexError", line |-> 32], genotype |-> NoGenotype]
        ELSE IF rows > Len(kw.demand)
        THEN [error |-> [kind |-> "IndexError", line |-> 32], genotype |-> NoGenotype]
        ELSE IF rows = 0
        THEN [error |-> NoError, genotype |-> [schedule |-> << >>, fitness |-> 0]]
        ELSE [error |-> NoError,
              genotype |-> Genotype(convert_to_integer(binary_schedule, kw.init_status), kw)]

InitEntry ==
    /\ GAReturns
    /\ fleet = GAFleet
    /\ codec = Off /\ cost = Off /\ ed = Off /\ op = Off /\ ec = Off
    /\ \E pop_size \in EntryPopSizes, demand \in EntryDemands :
       \E rows \in SeedRows, width \in SeedWidths :
       \E seed_schedules \in [1..pop_size -> Matrices(rows, width, {0, 1})] :
          ga = [pc |-> "init",
                kwargs |-> Kwargs(GAFleet, demand, GAInitStatus, GAInitialPenalty,
                                  2 * NumGenerations, pop_size),
                seed_schedules |-> seed_schedules, seed_width |-> width,
                parent_population |-> << >>, new_population |-> << >>,
                best_genotype1 |-> NoGenotype,
                results |-> << >>, g |-> 0, idx1 |-> 0, idx2 |-> 0, hits |-> 0,
                offspring_binary_schedule1 |-> NoSchedule,
                offspring_binary_schedule2 |-> NoSchedule,
                best_binary_schedule |-> NoSchedule,
                error |-> NoError]

\* Lines 29-39 on these arguments: the first seed that cannot be evaluated
\* ends the call; so does best_two_genotypes()[0] on an empty population
\* (line 36, the list it returns is empty).
EntryPopulation ==
    /\ ga.pc = "init"
    /\ LET built == [i \in 1..ga.kwargs.pop_size |->
                        SeedGenotype(ga.seed_schedules[i], ga.seed_width, ga.kwargs)]
           failed == { i \in 1..ga.kwargs.pop_size : built[i].error # NoError }
           genotypes == [i \in 1..ga.kwargs.pop_size |-> built[i].genotype]
       IN  IF failed # {}
           THEN ga' = [ga EXCEPT !.pc = "raised",
                          !.error = built[CHOOSE i \in failed : \A k \in failed : i <= k].error]
           ELSE IF genotypes = << >>
           THEN ga' = [ga EXCEPT !.pc = "raised",
                          !.error = [kind |-> "IndexError", line |-> 36]]
           ELSE \E i \in BestIdx(genotypes) :
                   ga' = [ga EXCEPT !.pc = "for", !.parent_population = genotypes,
                                    !.best_genotype1 = genotypes[i], !.results = << >>]
    /\ UNCHANGED << fleet, codec, cost, ed, op, ec >>

\* Line 55 when every fitness is 0: the probabilities of select_two_genotypes
\* are 0/0 and np.random.choice raises ValueError.
SelectRaises ==
    /\ ga.pc = "while"
    /\ Len(ga.new_population) < ga.kwargs.pop_size
    /\ SelectTwoIdx(ga.parent_population) = {}
    /\ ga' = [ga EXCEPT !.pc = "raised", !.error = [kind |-> "ValueError", line |-> 55]]
    /\ UNCHANGED << fleet, codec, cost, ed, op, ec >>

NextEntry == EntryPopulation \/ StartGeneration \/ SelectParents \/ SelectRaises
SpecEntry == InitEntry /\ [][NextEntry]_vars

\* ------------------------------------------------- the genetic operators
\* One call of one operator of operators.py on a binary schedule of 2 or 3
\* periods.  op.args are the arrays passed as they were before the call,
\* op.after the same arrays after it, op.ret the arrays returned and op.draw
\* what the call drew.  The hill-climbs run under OpKwargs.
Horizons == {2, 3}
OpKwargs(nT) ==
    Kwargs(GAFleet, SubSeq(CostDemand, 1, nT), GAInitStatus, GAInitialPenalty, 0, 0)
OpFitness(binary_schedule) ==
    calculate_schedule_fitness(convert_to_integer(binary_schedule, GAInitStatus),
                               OpKwargs(Len(binary_schedule)))

InitOperators ==
    /\ fleet = GAFleet
    /\ codec = Off
    /\ cost = Off
    /\ ed = Off
    /\ ga = Off
    /\ ec = Off
    /\ \E nT \in Horizons : \E binary_schedule \in Matrices(nT, N, {0, 1}) :
          op = [pc |-> "call", name |-> "none", args |-> << binary_schedule >>,
                after |-> << binary_schedule >>, ret |-> << >>, draw |-> << >>]

OpT == Len(op.args[1])
Returned(name, args, after, ret, draw) ==
    /\ op' = [pc |-> "returned", name |-> name, args |-> args,
              after |-> after, ret |-> ret, draw |-> draw]
    /\ UNCHANGED << fleet, codec, cost, ed, ga, ec >>

CallMutate ==
    /\ op.pc = "call"
    /\ \E idx \in SUBSET ((1..OpT) \X (1..N)) :
          LET mutated_binary_schedule == mutate(op.args[1], idx)
          IN  Returned("mutate", op.args,
                       << InPlace(op.args[1], mutated_binary_schedule) >>,
                       << mutated_binary_schedule >>, [idx |-> idx])

CallCrossover ==
    /\ op.pc = "call"
    /\ \E binary_schedule2 \in Matrices(OpT, N, {0, 1}),
          crossover_point \in 0..(OpT - 1), cols \in SUBSET (1..N) :
          LET o == crossover(op.args[1], binary_schedule2, crossover_point, cols)
          IN  Returned("crossover", << op.args[1], binary_schedule2 >>,
                       << Copied(op.args[1], o[1]), Copied(binary_schedule2, o[2]) >>,
                       o, [crossover_point |-> crossover_point, cols |-> cols])

CallSwapWindow ==
    /\ op.pc = "call"
    /\ \E w \in Windows(OpT), r \in GenPairs(N) :
          LET new_binary_schedule == swap_window(op.args[1], w[1], w[2], r[1], r[2])
          IN  Returned("swap_window", op.args,
                       << Copied(op.args[1], new_binary_schedule) >>,
                       << new_binary_schedule >>,
                       [random_window |-> w, random_gens |-> r])

CallWindowMutation ==
    /\ op.pc = "call"
    /\ \E w \in Windows(OpT), random_gen \in 1..N, zero_or_one \in {0, 1} :
          LET new_binary_schedule ==
                 window_mutation(op.args[1], w[1], w[2], random_gen, zero_or_one)
          IN  Returned("window_mutation", op.args,
                       << InPlace(op.args[1], new_binary_schedule) >>,
                       << new_binary_schedule >>,
                       [random_window |-> w, random_gen |-> random_gen,
                        zero_or_one |-> zero_or_one])

CallSwapMutation ==
    /\ op.pc = "call"
    /\ \E moves \in [1..OpT -> SwapMutationMoves(N)] :
          LET best_schedule == swap_mutation_operator(op.args[1], moves, OpKwargs(OpT))
          IN  Returned("swap_mutation_operator", op.args,
                       << Copied(op.args[1], best_schedule) >>,
                       << best_schedule >>, [moves |-> moves])

\* With no window size to draw from (T = 2), np.random.choice raises.
CallSwapWindowHC ==
    /\ op.pc = "call"
    /\ IF WindowSizes(OpT) = {}
       THEN /\ op' = [op EXCEPT !.pc = "error", !.name = "swap_window_hc_operator"]
            /\ UNCHANGED << fleet, codec, cost, ed, ga, ec >>
       ELSE \E W \in WindowSizes(OpT), u \in GenPairs(N) :
               LET best_schedule ==
                      swap_window_hc_operator(op.args[1], W, u[1], u[2], OpKwargs(OpT))
               IN  Returned("swap_window_hc_operator", op.args,
                            << Copied(op.args[1], best_schedule) >>,
                            << best_schedule >>,
                            [W |-> W, u1 |-> u[1], u2 |-> u[2],
                             starts |-> HCWindowStarts(OpT, W)])

NextOperators ==
    \/ CallMutate \/ CallCrossover \/ CallSwapWindow \/ CallWindowMutation
    \/ CallSwapMutation \/ CallSwapWindowHC
SpecOperators == InitOperators /\ [][NextOperators]_vars

\* ------------------------------------------------- calculate_expected_cost
\* expected_costs.py.  sigmas, the weights of the five demand realisations, in
\* thousandths; the expected cost is held in money units of
\* 1/(MoneyScale*SigmaDen).
SigmaDen == 1000
sigmas == << 23, 136, 682, 136, 23 >>
\* np.arange(-2, 3): the deviation of each realisation, in standard deviations.
Deviations == << -2, -1, 0, 1, 2 >>

\* demand_real[i] = demand + demand*uncertainty*j, with uncertainty held as
\* uncertainty2/2 (0 or 0.5) and even demands, so every realisation is whole.
demand_realisation_Whole(demand, uncertainty2, j) ==
    [t \in DOMAIN demand |-> demand[t] + demand[t] * j]
demand_realisation(demand, uncertainty2, j) ==
    [t \in DOMAIN demand |-> demand[t] + (demand[t] * uncertainty2 * j) \div 2]

\* fuel_costs + lost_load_costs of one realisation, from its dispatch.
realisation_cost(dis, gen_info, voll, n_hrs) ==
    SumSeq(calculate_fuel_costs(dis.dispatch, gen_info, n_hrs)) + dis.ens * voll * 2 * Scale

\* The instance: one unit (1..5 MW, a = 1, b = 2, c = 1, hot_cost 2,
\* cold_cost 4, cold_hrs 1), ECPeriods periods, demands 2 and 4 MW.
ECPeriods == 2
ECFleet == << Unit(1, 5, 1, 2, 1, 1, 1, 2, 4, 1) >>
ECDemands == {2, 4}
ECKwargs == Kwargs(ECFleet, << >>, << >>, 0, 0, 0)

\* The arguments of a call: schedule is an integer schedule continuing the
\* status column of gen_info.
InitExpected ==
    /\ fleet = ECFleet
    /\ codec = Off /\ cost = Off /\ ed = Off /\ ga = Off /\ op = Off
    /\ \E s \in (-MaxRun..MaxRun) \ {0} :
       \E b \in Matrices(ECPeriods, Len(ECFleet), {0, 1}) :
       \E d \in [1..ECPeriods -> ECDemands] :
       \E u2 \in {0, 1} :
          ec = [pc |-> "call", init_status |-> << s >>,
                schedule |-> convert_to_integer(b, << s >>),
                demand |-> d, uncertainty2 |-> u2,
                demand_real |-> << >>, dispatch |-> << >>, average_cost |-> 0]

\* Lines 40-56: the start costs, the five realisations, average_cost =
\* start_costs.
ExpectedStart ==
    /\ ec.pc = "call"
    /\ ec' = [ec EXCEPT
                !.pc = "for",
                !.demand_real = [i \in DOMAIN Deviations |->
                                   demand_realisation(ec.demand, ec.uncertainty2, Deviations[i])],
                !.average_cost = SigmaDen * MoneyScale
                                 * SumSeq(calculate_start_costs(fleet, ec.schedule, ec.init_status))]
    /\ UNCHANGED << fleet, codec, cost, ed, ga, op >>

\* Lines 58-68: one pass of the loop over the realisations.
ExpectedRealisation ==
    /\ ec.pc = "for"
    /\ Len(ec.dispatch) < Len(ec.demand_real)
    /\ LET i == Len(ec.dispatch) + 1
           dis == economic_dispatch(fleet, ec.schedule, ec.demand_real[i])
       IN  IF dis.hang
           THEN ec' = [ec EXCEPT !.pc = "hang"]
           ELSE ec' = [ec EXCEPT
                         !.dispatch = Append(@, dis.dispatch),
                         !.average_cost = @ + sigmas[i]
                              * realisation_cost(dis, fleet, ECKwargs.voll, ECKwargs.n_hrs)]
    /\ UNCHANGED << fleet, codec, cost, ed, ga, op >>

\* Line 70.
ExpectedReturn ==
    /\ ec.pc = "for"
    /\ Len(ec.dispatch) = Len(ec.demand_real)
    /\ ec' = [ec EXCEPT !.pc = "returned"]
    /\ UNCHANGED << fleet, codec, cost, ed, ga, op >>

NextExpected == ExpectedStart \/ ExpectedRealisation \/ ExpectedReturn
SpecExpected == InitExpected /\ [][NextExpected]_vars

\* ================================================================ claims

\* ---- C8 (SpecCodec).  Run-length encoding: once convert_to_integer has
\* run, every cell continues the previous period's run-length by +1 (online)
\* or -1 (offline) when the binary state is that of the previous period
\* (init_status, binarised, before the first period), and is +1 or -1 when
\* the state flips; no cell is 0; and init_status = [3] with binary
\* [1,1,0,0,1] gives [4,5,-1,-2,1].
CodecEncoded == codec.pc \in {"integer", "done"}
PrevBinary(b, init, t, n) ==
    IF t = 1 THEN (IF init[n] > 0 THEN 1 ELSE 0) ELSE b[t - 1][n]
C8_RunLengthEncoding ==
    /\ CodecEncoded =>
         \A t \in 1..T, n \in 1..N :
            LET b == codec.binary_schedule
                r == codec.integer_schedule
                prev == IF t = 1 THEN codec.init_status[n] ELSE r[t - 1][n]
                step == IF b[t][n] = 1 THEN 1 ELSE -1
            IN  /\ r[t][n] # 0
                /\ b[t][n] = PrevBinary(b, codec.init_status, t, n) => r[t][n] = prev + step
                /\ b[t][n] # PrevBinary(b, codec.init_status, t, n) => r[t][n] = step
    /\ convert_to_integer(<< <<1>>, <<1>>, <<0>>, <<0>>, <<1>> >>, << 3 >>)
         = << <<4>>, <<5>>, <<-1>>, <<-2>>, <<1>> >>

\* A column that continues the initial run, flips, and continues again.
C8_Witness ==
    /\ codec.pc = "integer"
    /\ codec.init_status[1] = 2
    /\ [t \in 1..T |-> codec.binary_schedule[t][1]] = << 1, 0, 0 >>
    /\ [t \in 1..T |-> codec.integer_schedule[t][1]] = << 3, -1, -2 >>

\* ---- C9 (SpecCodec).  Codec round trip: for the integer schedule s drawn
\* and every init_status, convert_to_integer(convert_to_binary(s),
\* init_status) is positive exactly in the cells where s is positive, and
\* convert_to_binary of it gives convert_to_binary(s) back.
C9_RoundTripSigns ==
    /\ CodecEncoded =>
         \A t \in 1..T, n \in 1..N :
            (codec.integer_schedule[t][n] > 0) <=> (codec.source[t][n] > 0)
    /\ codec.pc = "done" => codec.binary_again = codec.binary_schedule

\* A round trip over zero, positive and negative cells that does not give
\* the magnitudes back.
C9_Witness ==
    /\ codec.pc = "done"
    /\ codec.source[1][1] = 0
    /\ codec.source[2][1] = MaxRun
    /\ codec.source[1][2] = -MaxRun
    /\ codec.integer_schedule[2][1] # codec.source[2][1]
    /\ codec.binary_again = codec.binary_schedule

\* ---- C3 (SpecCost).  Start cost: the cost recorded for each period is the
\* sum, over the units that go from off to on at that period's boundary
\* (against init_status for the first period), of hot_cost when the
\* magnitude of the preceding offline run-length is <= cold_hrs and of
\* cold_cost otherwise.
ClaimedStartCost(unit, status_i, prev_i) ==
    IF status_i > 0 /\ prev_i <= 0
    THEN IF Abs(prev_i) <= unit.cold_hrs THEN unit.hot_cost ELSE unit.cold_cost
    ELSE 0
C3_StartCostHotCold ==
    cost.pc \in {"start_costs", "done"} =>
        \A t \in 1..Len(cost.start_costs) :
            cost.start_costs[t] =
                SumSeq([n \in 1..N |->
                    ClaimedStartCost(fleet[n], cost.schedule[t][n],
                                     IF t = 1 THEN cost.init_status[n]
                                     ELSE cost.schedule[t - 1][n])])

\* ---- economic_dispatch: what the claims read of a finished period.
EDFinished == ed.pc \in {"period", "done"} /\ ed.t > 1
EDOnline(n) == ed.schedule_t[n] > 0
EDOnMax == SumSeq([n \in 1..Len(fleet) |->
                     IF EDOnline(n) THEN fleet[n].max_output * Scale ELSE 0])
EDOnMin == SumSeq([n \in 1..Len(fleet) |->
                     IF EDOnline(n) THEN fleet[n].min_output * Scale ELSE 0])

\* ---- C4 (SpecDispatch).  Lambda iteration postcondition: a period with
\* sum(min) <= demand <= sum(max) over the online units ends with outputs
\* that sum to the demand within epsilon = 0.1, every online unit within
\* [min, max], every offline unit at 0 and energy-not-served 0.
C4_LambdaPostcondition ==
    (EDFinished /\ EDOnMin <= ed.demand_t * Scale /\ ed.demand_t * Scale <= EDOnMax) =>
        /\ EpsilonDen * Abs(SumSeq(ed.disp_t) - ed.demand_t * Scale) <= Scale
        /\ \A n \in 1..Len(fleet) :
              IF EDOnline(n)
              THEN /\ fleet[n].min_output * Scale <= ed.disp_t[n]
                   /\ ed.disp_t[n] <= fleet[n].max_output * Scale
              ELSE ed.disp_t[n] = 0
        /\ ed.ens_t = 0

\* ---- C5 (SpecDispatch).  Bisection termination: lambda_iteration never
\* reaches a state in which its loop condition holds and a pass of the loop
\* leaves lambda_low, lambda_high, lambda_mid and total_output as they are
\* (the loop then runs for ever, with no error raised).
C5_BisectionTerminates ==
    ed.pc = "lambda" =>
        ~LambdaStuck(ed.lam, ed.demand_t * Scale, OnlineUnits(fleet, ed.schedule_t))

\* ---- C6 (SpecDispatch).  Dispatch shortfall: a period whose online maxima
\* sum to less than the demand ends with every online unit at max_output,
\* every offline unit at 0 and energy-not-served = demand - sum(online
\* maxima); with no unit online that is the demand itself.
C6_Shortfall ==
    (EDFinished /\ EDOnMax < ed.demand_t * Scale) =>
        /\ \A n \in 1..Len(fleet) :
              ed.disp_t[n] = IF EDOnline(n) THEN fleet[n].max_output * Scale ELSE 0
        /\ ed.ens_t = ed.demand_t * Scale - EDOnMax
        /\ (\A n \in 1..Len(fleet) : ~EDOnline(n)) => ed.ens_t = ed.demand_t * Scale

\* A finished period with no unit online and a positive demand.
C6_Witness ==
    /\ EDFinished
    /\ \A n \in 1..Len(fleet) : ~EDOnline(n)
    /\ ed.demand_t = MaxDemand
    /\ ed.ens_t = MaxDemand * Scale

GARunning == ga.pc \notin {"off", "init"}
LastResult(results) == results[Len(results)]
\* The genotype recorded for the generation before: RecordBest adds it last
\* to the population that becomes the parent population.
PreviousBest == ga.parent_population[Len(ga.parent_population)]

\* C1, as stated: the results sequence is non-increasing, for every seed,
\* every draw of the operators and every max_penalty >= 0.
C1_ResultsNonIncreasing ==
    GARunning =>
        \A k \in 1..(Len(ga.results) - 1) : ga.results[k + 1] <= ga.results[k]

\* C1: the fitness recorded for a generation is at most the fitness of the
\* schedule recorded for the generation before, taken under the penalty of
\* the new generation; with max_penalty = 0, the penalty never changes and
\* the recorded fitness is at most the one recorded before.
C1_ElitismUnderPenalty ==
    [][ (ga.pc = "genotype" /\ ga'.pc = "for" /\ ga.results # << >>) =>
           /\ LastResult(ga'.results)
                 <= calculate_fitness(PreviousBest.schedule, ga.kwargs)
           /\ ga.kwargs.max_penalty = 0 =>
                 LastResult(ga'.results) <= LastResult(ga.results) ]_vars

\* Two generations are recorded under a growing penalty, and the second
\* recorded fitness is above the first.
C1_Witness ==
    /\ GARunning
    /\ Len(ga.results) >= 2
    /\ ga.kwargs.max_penalty > 0
    /\ ga.results[2] > ga.results[1]

\* C2, as stated: the new population never holds more than pop_size
\* genotypes, and neither does the population handed to the next generation.
C2_PopulationSize ==
    GARunning =>
        /\ Len(ga.new_population) <= ga.kwargs.pop_size
        /\ Len(ga.parent_population) <= ga.kwargs.pop_size

\* C10: a selection step returns two slots of the parent population that
\* differ, and leaves the population as it was.
C10_SelectionValidity ==
    [][ (ga.pc = "while" /\ ga'.pc = "crossover") =>
           /\ ga'.idx1 \in 1..Len(ga.parent_population)
           /\ ga'.idx2 \in 1..Len(ga.parent_population)
           /\ ga'.idx1 # ga'.idx2
           /\ ga'.parent_population = ga.parent_population ]_vars

\* Two genotypes have been selected from a population of three.
C10_Witness ==
    /\ ga.pc = "crossover"
    /\ Len(ga.parent_population) = 3
    /\ ga.idx1 # ga.idx2
    /\ ga.idx1 \in 1..3 /\ ga.idx2 \in 1..3

\* ---- calculate_constraint_costs.
\* The violations of one period as the documentation counts them: a start
\* after an offline run shorter than t_min_down, a stop after an online run
\* shorter than t_min_up, and one for a reserve shortfall.
ClaimedViolations(gen_info, status, prev_status, reserve_pct, demand_period) ==
    Cardinality({i \in DOMAIN gen_info :
                    /\ status[i] > 0 /\ prev_status[i] <= 0
                    /\ Abs(prev_status[i]) < gen_info[i].t_min_down})
    + Cardinality({i \in DOMAIN gen_info :
                    /\ status[i] <= 0 /\ prev_status[i] > 0
                    /\ Abs(prev_status[i]) < gen_info[i].t_min_up})
    + (IF 100 * SumSeq([i \in DOMAIN gen_info |->
                          IF status[i] > 0 THEN gen_info[i].max_output ELSE 0])
          < (100 + reserve_pct) * demand_period
       THEN 1 ELSE 0)

\* C11: every period's constraint cost is the penalty times the violations
\* of that period, stops being judged against t_min_up.
C11_ConstraintCost ==
    cost.pc = "done" =>
        \A t \in 1..Len(cost.constraint_costs) :
            cost.constraint_costs[t] =
                GAInitialPenalty
                * ClaimedViolations(fleet, cost.schedule[t],
                                    IF t = 1 THEN cost.init_status
                                    ELSE cost.schedule[t - 1],
                                    CostReservePct, CostDemand[t])

\* ------------------------------------------------------- operator claims
OpReturned(name) == op.pc = "returned" /\ op.name = name
OpCellsOf(schedule) == (DOMAIN schedule) \X (1..N)
SameShape(a, b) ==
    /\ DOMAIN a = DOMAIN b
    /\ \A t \in DOMAIN a : DOMAIN a[t] = DOMAIN b[t]

\* C12, as stated: in every cell the two offspring of crossover hold the two
\* parent values (as a multiset), and a column not selected is copied from
\* p1 to o1 and from p2 to o2.
C12_CrossoverExchange ==
    OpReturned("crossover") =>
        \A c \in OpCellsOf(op.args[1]) :
            LET t == c[1]
                n == c[2]
                p1 == op.args[1][t][n]
                p2 == op.args[2][t][n]
                o1 == op.ret[1][t][n]
                o2 == op.ret[2][t][n]
            IN  /\ \/ (o1 = p1 /\ o2 = p2)
                   \/ (o1 = p2 /\ o2 = p1)
                /\ n \notin op.draw.cols => (o1 = p1 /\ o2 = p2)

\* C13, as stated: every operator leaves the arrays passed to it as they
\* were and returns arrays of the same shape.
C13_OperatorPurity ==
    op.pc = "returned" =>
        /\ op.after = op.args
        /\ \A k \in DOMAIN op.ret : SameShape(op.ret[k], op.args[k])

\* C18: the schedule a hill-climb returns costs no more than its input, and
\* is the input itself unless it costs strictly less (a move is kept only on
\* a strict improvement).
C18_HillClimbNeverWorsens ==
    (OpReturned("swap_mutation_operator") \/ OpReturned("swap_window_hc_operator")) =>
        /\ OpFitness(op.ret[1]) <= OpFitness(op.args[1])
        /\ OpFitness(op.ret[1]) = OpFitness(op.args[1]) => op.ret[1] = op.args[1]

\* Each hill-climb has returned a schedule that costs less than its input.
C18_Witness ==
    /\ OpReturned("swap_mutation_operator")
    /\ OpFitness(op.ret[1]) < OpFitness(op.args[1])
C18_WitnessWindow ==
    /\ OpReturned("swap_window_hc_operator")
    /\ OpFitness(op.ret[1]) < OpFitness(op.args[1])

\* C19, as stated: the window hill-climb is defined for every horizon and
\* tries every window start t with 0 <= t <= T - W.
C19_WindowCoverage ==
    op.name = "swap_window_hc_operator" =>
        /\ op.pc = "returned"
        /\ op.draw.starts = 0..(OpT - op.draw.W)

\* C20: swap_window exchanges the values of the two chosen generators in the
\* periods of the window, changes no other cell, and keeps the number of
\* online units of every period.
C20_SwapWindow ==
    OpReturned("swap_window") =>
        LET w == op.draw.random_window
            r == op.draw.random_gens
            inside(t) == t - 1 >= w[1] /\ t - 1 < w[2]
        IN  /\ r[1] # r[2]
            /\ \E t \in DOMAIN op.args[1] : inside(t)
            /\ \A c \in OpCellsOf(op.args[1]) :
                  op.ret[1][c[1]][c[2]] =
                     IF inside(c[1]) /\ c[2] = r[1] THEN op.args[1][c[1]][r[2]]
                     ELSE IF inside(c[1]) /\ c[2] = r[2] THEN op.args[1][c[1]][r[1]]
                     ELSE op.args[1][c[1]][c[2]]
            /\ \A t \in DOMAIN op.args[1] :
                  SumSeq(op.ret[1][t]) = SumSeq(op.args[1][t])

\* swap_window has returned a schedule that differs from its input.
C20_Witness ==
    /\ OpReturned("swap_window")
    /\ op.ret[1] # op.args[1]

\* ------------------------------------------------- expected-cost claims

\* The fuel cost the claim states for one period at output p MW:
\* n_hrs*(a*p^2 + b*p + c) with a = 1/a_inv, in money units of 1/MoneyScale.
ClaimedFuelCost(unit, p, n_hrs) ==
    n_hrs * ((MoneyScale * p * p) \div unit.a_inv + MoneyScale * unit.b * p + MoneyScale * unit.c)

\* The case of the claim: the single unit committed in every period, a flat
\* demand strictly inside its output range, uncertainty 0.
ECCase ==
    /\ ec.pc = "returned"
    /\ Len(fleet) = 1
    /\ \A t \in DOMAIN ec.schedule : ec.schedule[t][1] > 0
    /\ \A t \in DOMAIN ec.demand : ec.demand[t] = ec.demand[1]
    /\ fleet[1].min_output < ec.demand[1] /\ ec.demand[1] < fleet[1].max_output
    /\ ec.uncertainty2 = 0

FuelCostAt(unit, p, n_hrs) ==
    n_hrs * ((2 \div unit.a_inv) * p * p + 2 * Scale * unit.b * p + MoneyScale * unit.c)

InGeneration ==
    ga.pc \in {"while", "crossover", "mutate", "swap_window", "window_mutation",
               "offspring", "swap_mutation", "hc", "genotype"}
InOffspringLoop ==
    ga.pc \in {"while", "crossover", "mutate", "swap_window", "window_mutation",
               "offspring"}
\* The penalty the claim gives generation g.
ClaimedPenalty(g) == (ga.kwargs.max_penalty * (g + 1)) \div NumGenerations
\* genotype carries the fitness of its schedule under the given penalty.
EvaluatedUnder(genotype, penalty) ==
    genotype.fitness
       = calculate_fitness(genotype.schedule, [ga.kwargs EXCEPT !.constraint_penalty = penalty])

\* ---- C17 (Spec).  Penalty annealing: throughout generation g the keyword
\* arguments every evaluation reads hold the penalty
\* max_penalty*(g+1)/number_of_generations; every offspring in the new
\* population and the re-wrapped elite recorded for the generation carry the
\* fitness of their schedule under that penalty; the penalty of a generation
\* is at least that of the generation before and is max_penalty in the last
\* one; and the initial population is the one evaluated under the configured
\* constraint_penalty.
C17_PenaltyAnnealing ==
    /\ InGeneration => ga.kwargs.constraint_penalty = ClaimedPenalty(ga.g)
    /\ InOffspringLoop =>
          \A i \in 2..Len(ga.new_population) :
             EvaluatedUnder(ga.new_population[i], ClaimedPenalty(ga.g))
    /\ (ga.pc \in {"for", "done"} /\ ga.g >= 1) =>
          /\ EvaluatedUnder(ga.best_genotype1, ClaimedPenalty(ga.g - 1))
          /\ LastResult(ga.results) = ga.best_genotype1.fitness
    /\ (InGeneration /\ ga.g >= 1) =>
          ga.kwargs.constraint_penalty >= ClaimedPenalty(ga.g - 1)
    /\ (InGeneration /\ ga.g = NumGenerations - 1) =>
          ga.kwargs.constraint_penalty = ga.kwargs.max_penalty
    /\ (ga.pc = "for" /\ ga.g = 0) =>
          /\ ga.kwargs.constraint_penalty = GAInitialPenalty
          /\ \A i \in 1..Len(ga.parent_population) :
                EvaluatedUnder(ga.parent_population[i], GAInitialPenalty)
C17_Witness ==
    /\ ga.pc = "done"
    /\ ga.kwargs.max_penalty > 0
    /\ Len(ga.results) = NumGenerations
    /\ ga.kwargs.constraint_penalty = ga.kwargs.max_penalty
    /\ ga.kwargs.constraint_penalty # GAInitialPenalty

\* ---- C15 (Spec).  Best-fitness bookkeeping: the value appended to results
\* in a generation is the lowest fitness among the genotypes of the
\* population that generation hands on, and the genotype returned has the
\* lowest fitness of the returned population.
C15_BestFitnessBookkeeping ==
    /\ (ga.pc \in {"for", "done"} /\ ga.g >= 1) =>
          \A i \in 1..Len(ga.parent_population) :
             LastResult(ga.results) <= ga.parent_population[i].fitness
    /\ ga.pc = "done" =>
          \A i \in 1..Len(ga.new_population) :
             ga.best_genotype1.fitness <= ga.new_population[i].fitness

\* ------------------------------------------------- configuration claims
\* The configurations the claim names.
Degenerate ==
    /\ ga.pc # "off"
    /\ \/ Len(ga.kwargs.demand) = 0
       \/ ga.seed_width # Len(ga.kwargs.gen_info)
       \/ ga.kwargs.pop_size = 0
\* The first line of the generation loop of run_genetic_algorithm.
LoopLine == 41

\* ---- C14 (SpecEntry).  Degenerate configuration: a call with a zero-length
\* demand profile, with seeds whose width is not the fleet size, or with
\* pop_size = 0 is stopped by an error before any generation of the loop
\* starts.
C14_DegenerateConfiguration ==
    Degenerate =>
       /\ ga.pc \notin {"while", "crossover"}
       /\ ga.pc = "raised" => ga.error.line < LoopLine

\* ---- C21 (Spec).  Consistent fitness at elite selection: when
\* best_two_genotypes is called on the new population in generation g (line
\* 64, the offspring loop is over), the fitness stored in every genotype of
\* that population, the elite carried over included, is the fitness of its
\* schedule under generation g's penalty.
AtEliteSelection ==
    /\ ga.pc = "while"
    /\ Len(ga.new_population) >= ga.kwargs.pop_size
C21_ConsistentFitness ==
    AtEliteSelection =>
       \A i \in 1..Len(ga.new_population) :
          EvaluatedUnder(ga.new_population[i], ClaimedPenalty(ga.g))

====
